---- MODULE Spec2Model ----
(***************************************************************************)
(* measure-hdr: per-frame luma statistics of an HDR clip (src/main.rs).    *)
(*                                                                         *)
(* Two specifications over one set of variables:                           *)
(*   Spec        the run of main: demuxer packets -> decoder -> parse_frame*)
(*               -> results -> flush -> plot                               *)
(*   SpecReduce  FrameInfo::parse_frame stepped sample by sample           *)
(*                                                                         *)
(* f64 PQ values are kept exact as fractions [num, den]; every per-frame   *)
(* statistic is code/1023.  usize is the 64-bit accumulator of the         *)
(* x86_64/aarch64 targets, kept as four 16-bit limbs.                      *)
(***************************************************************************)
EXTENDS Integers, Sequences, FiniteSets, TLC

\* ------------------------------------------------------------------ bounds
\* longest sample buffer of a frame in SpecReduce
MaxLen == 3
\* longest packet sequence of a short clip
MaxPackets == 3
\* largest decoder latency (frames held back until end-of-stream)
MaxDelay == 1
\* a long clip has ReportEvery .. ReportEvery + LongExtra video packets
LongExtra == 1

\* ------------------------------------------------------- program constants
\* frame_count % 100 == 0
ReportEvery == 100
\* const YUV420_10BIT_MAX: f64 = 1023.0
YUV420_10BIT_MAX == 1023
\* u16::MAX
U16_MAX == 65535
\* one limb of the accumulator holds 16 bits
LimbBase == 65536
\* usize: 64 bits = 4 limbs
UsizeLimbs == 4

\* ret while main is running
Null == "null"
\* Option: None and Some(x); a panicking call yields None here
None == <<>>
Some(x) == <<x>>
Unwrap(o) == o[1]

\* -------------------------------------------------------------- arithmetic
Clamp(x, lo, hi) == IF x < lo THEN lo ELSE IF x > hi THEN hi ELSE x

\* f64 comparison of two fractions (denominators are positive)
PqLeq(a, b) == a.num * b.den <= b.num * a.den

\* fn yuv420_10bit_to_pq(sample: u16) -> f64
yuv420_10bit_to_pq(sample) ==
    [num |-> Clamp(sample, 0, YUV420_10BIT_MAX), den |-> 1023]

\* The inverse EOTF n * ST2084_Y_MAX at pq = k/1023, k = 0..1023, in units of
\* 1e-5 nits (rounded): NitsTable[k + 1].
NitsTable == <<
    0, 4, 13, 26, 43, 64, 88, 116,
    147, 183, 222, 264, 311, 361, 416, 474,
    537, 603, 674, 749, 829, 913, 1002, 1095,
    1193, 1296, 1404, 1516, 1634, 1757, 1885, 2019,
    2157, 2302, 2452, 2608, 2769, 2937, 3110, 3290,
    3476, 3668, 3866, 4072, 4283, 4502, 4727, 4959,
    5199, 5445, 5699, 5960, 6229, 6506, 6790, 7082,
    7382, 7690, 8006, 8331, 8665, 9007, 9357, 9717,
    10085, 10463, 10850, 11247, 11652, 12068, 12494, 12929,
    13375, 13830, 14297, 14773, 15261, 15759, 16268, 16789,
    17321, 17864, 18418, 18985, 19563, 20154, 20757, 21372,
    22000, 22640, 23294, 23960, 24640, 25333, 26040, 26761,
    27496, 28244, 29007, 29785, 30577, 31385, 32207, 33044,
    33898, 34766, 35651, 36551, 37468, 38402, 39352, 40319,
    41303, 42304, 43323, 44360, 45414, 46487, 47578, 48688,
    49816, 50964, 52131, 53317, 54524, 55750, 56996, 58263,
    59551, 60860, 62190, 63541, 64914, 66309, 67727, 69167,
    70629, 72115, 73624, 75157, 76713, 78294, 79899, 81528,
    83183, 84863, 86568, 88299, 90057, 91840, 93651, 95488,
    97353, 99246, 101166, 103115, 105092, 107098, 109134, 111199,
    113294, 115419, 117574, 119761, 121979, 124228, 126509, 128823,
    131169, 133548, 135961, 138407, 140887, 143402, 145951, 148536,
    151156, 153812, 156505, 159234, 162001, 164805, 167647, 170527,
    173446, 176404, 179402, 182440, 185518, 188638, 191798, 195000,
    198244, 201531, 204861, 208235, 211652, 215114, 218621, 222173,
    225771, 229416, 233107, 236845, 240631, 244466, 248349, 252282,
    256264, 260297, 264380, 268515, 272702, 276941, 281233, 285579,
    289978, 294432, 298942, 303507, 308128, 312806, 317541, 322335,
    327187, 332098, 337069, 342101, 347193, 352347, 357564, 362843,
    368185, 373592, 379063, 384600, 390203, 395873, 401610, 407415,
    413289, 419232, 425245, 431329, 437485, 443713, 450013, 456388,
    462836, 469360, 475960, 482636, 489390, 496221, 503132, 510122,
    517193, 524345, 531578, 538895, 546295, 553780, 561350, 569006,
    576748, 584579, 592498, 600507, 608606, 616796, 625078, 633454,
    641923, 650486, 659146, 667902, 676756, 685708, 694760, 703912,
    713165, 722521, 731979, 741543, 751211, 760986, 770868, 780858,
    790958, 801168, 811489, 821923, 832471, 843133, 853911, 864806,
    875818, 886950, 898202, 909575, 921071, 932690, 944434, 956304,
    968301, 980426, 992681, 1005067, 1017585, 1030236, 1043021, 1055942,
    1069001, 1082197, 1095533, 1109010, 1122629, 1136392, 1150299, 1164353,
    1178554, 1192904, 1207405, 1222057, 1236863, 1251823, 1266939, 1282213,
    1297645, 1313238, 1328993, 1344911, 1360994, 1377243, 1393660, 1410247,
    1427005, 1443936, 1461041, 1478321, 1495779, 1513416, 1531234, 1549235,
    1567419, 1585789, 1604347, 1623094, 1642032, 1661162, 1680487, 1700008,
    1719727, 1739647, 1759767, 1780091, 1800621, 1821358, 1842304, 1863461,
    1884831, 1906416, 1928218, 1950238, 1972480, 1994944, 2017633, 2040550,
    2063695, 2087071, 2110680, 2134525, 2158607, 2182928, 2207492, 2232299,
    2257352, 2282654, 2308206, 2334012, 2360072, 2386390, 2412968, 2439807,
    2466912, 2494283, 2521923, 2549836, 2578022, 2606485, 2635227, 2664251,
    2693559, 2723154, 2753038, 2783214, 2813685, 2844452, 2875520, 2906890,
    2938566, 2970549, 3002843, 3035451, 3068375, 3101619, 3135184, 3169075,
    3203293, 3237842, 3272725, 3307944, 3343504, 3379406, 3415654, 3452250,
    3489199, 3526503, 3564166, 3602190, 3640579, 3679335, 3718464, 3757966,
    3797847, 3838109, 3878756, 3919791, 3961217, 4003039, 4045259, 4087882,
    4130910, 4174347, 4218198, 4262465, 4307152, 4352263, 4397803, 4443774,
    4490180, 4537026, 4584315, 4632051, 4680238, 4728880, 4777981, 4827546,
    4877578, 4928081, 4979060, 5030519, 5082462, 5134894, 5187818, 5241239,
    5295161, 5349589, 5404528, 5459982, 5515955, 5572452, 5629477, 5687036,
    5745133, 5803773, 5862960, 5922699, 5982996, 6043855, 6105281, 6167279,
    6229855, 6293012, 6356757, 6421095, 6486030, 6551569, 6617716, 6684476,
    6751856, 6819860, 6888494, 6957764, 7027676, 7098234, 7169444, 7241313,
    7313846, 7387049, 7460928, 7535489, 7610737, 7686679, 7763321, 7840670,
    7918730, 7997509, 8077013, 8157248, 8238221, 8319938, 8402405, 8485630,
    8569619, 8654378, 8739915, 8826236, 8913348, 9001258, 9089973, 9179500,
    9269847, 9361020, 9453027, 9545874, 9639570, 9734122, 9829538, 9925824,
    10022989, 10121040, 10219985, 10319832, 10420588, 10522263, 10624863, 10728397,
    10832874, 10938300, 11044686, 11152038, 11260367, 11369679, 11479984, 11591291,
    11703608, 11816944, 11931308, 12046709, 12163157, 12280659, 12399227, 12518868,
    12639592, 12761410, 12884330, 13008362, 13133515, 13259801, 13387227, 13515806,
    13645546, 13776458, 13908552, 14041839, 14176328, 14312031, 14448959, 14587121,
    14726528, 14867192, 15009124, 15152335, 15296835, 15442637, 15589751, 15738190,
    15887964, 16039086, 16191567, 16345419, 16500654, 16657285, 16815323, 16974781,
    17135672, 17298007, 17461801, 17627064, 17793811, 17962054, 18131806, 18303082,
    18475893, 18650254, 18826177, 19003678, 19182769, 19363465, 19545780, 19729727,
    19915322, 20102578, 20291511, 20482134, 20674463, 20868514, 21064300, 21261837,
    21461141, 21662227, 21865110, 22069807, 22276334, 22484706, 22694940, 22907052,
    23121058, 23336976, 23554821, 23774612, 23996365, 24220097, 24445826, 24673569,
    24903344, 25135169, 25369062, 25605041, 25843125, 26083331, 26325680, 26570188,
    26816877, 27065764, 27316869, 27570212, 27825812, 28083690, 28343865, 28606357,
    28871187, 29138376, 29407944, 29679913, 29954303, 30231136, 30510433, 30792217,
    31076508, 31363330, 31652704, 31944654, 32239201, 32536369, 32836180, 33138659,
    33443829, 33751713, 34062336, 34375721, 34691894, 35010878, 35332699, 35657382,
    35984951, 36315434, 36648854, 36985239, 37324615, 37667007, 38012443, 38360950,
    38712555, 39067285, 39425168, 39786232, 40150506, 40518016, 40888794, 41262866,
    41640263, 42021014, 42405148, 42792697, 43183689, 43578156, 43976129, 44377638,
    44782715, 45191392, 45603701, 46019673, 46439342, 46862741, 47289903, 47720860,
    48155647, 48594299, 49036848, 49483331, 49933782, 50388236, 50846729, 51309298,
    51775978, 52246805, 52721818, 53201054, 53684549, 54172343, 54664473, 55160978,
    55661897, 56167270, 56677137, 57191537, 57710511, 58234100, 58762345, 59295289,
    59832972, 60375438, 60922729, 61474888, 62031959, 62593986, 63161014, 63733087,
    64310250, 64892550, 65480031, 66072741, 66670727, 67274036, 67882715, 68496814,
    69116380, 69741463, 70372112, 71008378, 71650310, 72297961, 72951380, 73610622,
    74275736, 74946778, 75623799, 76306854, 76995998, 77691284, 78392770, 79100509,
    79814560, 80534978, 81261822, 81995149, 82735018, 83481488, 84234619, 84994471,
    85761105, 86534582, 87314964, 88102313, 88896694, 89698168, 90506801, 91322658,
    92145804, 92976305, 93814228, 94659640, 95512609, 96373204, 97241495, 98117550,
    99001441, 99893239, 100793016, 101700844, 102616797, 103540948, 104473373, 105414147,
    106363345, 107321045, 108287324, 109262260, 110245933, 111238422, 112239808, 113250172,
    114269595, 115298162, 116335954, 117383058, 118439558, 119505539, 120581090, 121666297,
    122761249, 123866035, 124980746, 126105472, 127240306, 128385339, 129540667, 130706384,
    131882584, 133069364, 134266822, 135475056, 136694165, 137924249, 139165409, 140417748,
    141681367, 142956372, 144242868, 145540959, 146850754, 148172361, 149505887, 150851445,
    152209145, 153579098, 154961419, 156356223, 157763623, 159183739, 160616686, 162062584,
    163521553, 164993715, 166479191, 167978106, 169490585, 171016752, 172556736, 174110665,
    175678668, 177260878, 178857425, 180468444, 182094069, 183734436, 185389684, 187059950,
    188745375, 190446101, 192162270, 193894027, 195641517, 197404888, 199184288, 200979867,
    202791777, 204620170, 206465202, 208327028, 210205805, 212101694, 214014853, 215945447,
    217893638, 219859591, 221843475, 223845457, 225865708, 227904401, 229961707, 232037805,
    234132869, 236247080, 238380617, 240533664, 242706405, 244899026, 247111715, 249344661,
    251598056, 253872094, 256166971, 258482884, 260820032, 263178616, 265558841, 267960912,
    270385035, 272831421, 275300282, 277791830, 280306282, 282843856, 285404772, 287989253,
    290597523, 293229810, 295886341, 298567349, 301273068, 304003734, 306759584, 309540861,
    312347807, 315180669, 318039693, 320925132, 323837239, 326776268, 329742480, 332736134,
    335757494, 338806827, 341884402, 344990490, 348125366, 351289307, 354482593, 357705507,
    360958336, 364241366, 367554891, 370899205, 374274605, 377681392, 381119870, 384590345,
    388093127, 391628530, 395196869, 398798465, 402433639, 406102718, 409806031, 413543911,
    417316695, 421124721, 424968333, 428847878, 432763706, 436716170, 440705627, 444732440,
    448796973, 452899594, 457040677, 461220596, 465439732, 469698470, 473997196, 478336304,
    482716190, 487137253, 491599897, 496104533, 500651571, 505241429, 509874530, 514551297,
    519272162, 524037560, 528847928, 533703712, 538605360, 543553325, 548548064, 553590040,
    558679721, 563817579, 569004092, 574239741, 579525014, 584860404, 590246408, 595683528,
    601172274, 606713159, 612306701, 617953425, 623653861, 629408545, 635218017, 641082824,
    647003520, 652980662, 659014816, 665106550, 671256443, 677465076, 683733038, 690060925,
    696449337, 702898882, 709410175, 715983836, 722620492, 729320778, 736085334, 742914808,
    749809855, 756771136, 763799320, 770895083, 778059107, 785292084, 792594710, 799967692,
    807411742, 814927580, 822515935, 830177544, 837913150, 845723505, 853609369, 861571512,
    869610709, 877727747, 885923417, 894198524, 902553878, 910990298, 919508613, 928109661,
    936794288, 945563352, 954417716, 963358255, 972385855, 981501408, 990705818, 1000000000>>

\* fn pq_to_nits(pq: f64) -> f64: clamp to [0,1], then the inverse EOTF, read
\* from NitsTable at the 10-bit code at or below pq (exact for pq = k/1023,
\* which every per-frame statistic is).
pq_to_nits(pq) ==
    LET num == Clamp(pq.num, 0, pq.den)
    IN  NitsTable[((num * 1023) \div pq.den) + 1]

\* ------------------------------------------------------ usize accumulator
UsizeZero == [limbs |-> [i \in 1..UsizeLimbs |-> 0], wrapped |-> FALSE]

RECURSIVE AddAt(_, _, _)
\* carry propagation from limb i upwards; the carry out of the top limb is lost
AddAt(limbs, i, c) ==
    IF c = 0 \/ i > Len(limbs)
        THEN [limbs |-> limbs, carry |-> c]
        ELSE LET t == limbs[i] + c
             IN  AddAt([limbs EXCEPT ![i] = t % LimbBase], i + 1, t \div LimbBase)

\* a 16-bit accumulator: sum += sample with sum: u16 (wrapping)
AddU16(sum, sample) ==
    LET t == sum.limbs[1] + sample
    IN  [limbs |-> [sum.limbs EXCEPT ![1] = t % LimbBase],
         wrapped |-> sum.wrapped \/ t >= LimbBase]

\* sum += sample as usize
AddUsize(sum, sample) ==
    LET r == AddAt(sum.limbs, 1, sample)
    IN  [limbs |-> r.limbs, wrapped |-> sum.wrapped \/ r.carry # 0]

RECURSIVE DivAt(_, _, _, _)
\* long division of the limbs i..1 by d, rem carried in from the limbs above
DivAt(limbs, i, rem, d) ==
    IF i = 0 THEN limbs
    ELSE LET cur == rem * LimbBase + limbs[i]
         IN  DivAt([limbs EXCEPT ![i] = cur \div d], i - 1, cur % d, d)

\* sum / frame.len()  (d > 0)
DivUsize(sum, d) == DivAt(sum.limbs, Len(sum.limbs), 0, d)

\* (x) as u16: the low 16 bits
AsU16(limbs) == limbs[1]

\* ------------------------------------------------- FrameInfo::parse_frame
\* let mut sum = 0; let mut max = 0; let mut min = u16::MAX;
ParseInit == [sum |-> UsizeZero, max |-> 0, min |-> U16_MAX]

\* a loop body that keeps the last sample as the maximum
ParseBodyLastMax(acc, sample) ==
    [sum |-> AddUsize(acc.sum, sample),
     max |-> sample,
     min |-> IF sample < acc.min THEN sample ELSE acc.min]

\* the body of `for &sample in frame`
ParseBody(acc, sample) ==
    [sum |-> AddUsize(acc.sum, sample),
     max |-> IF sample > acc.max THEN sample ELSE acc.max,
     min |-> IF sample < acc.min THEN sample ELSE acc.min]

\* lines 65-71: the mean and the three conversions; a division by zero panics
ParseFinish(acc, len) ==
    IF len = 0 THEN None
    ELSE LET avg == AsU16(DivUsize(acc.sum, len))
         IN  Some([max |-> yuv420_10bit_to_pq(acc.max),
                   min |-> yuv420_10bit_to_pq(acc.min),
                   avg |-> yuv420_10bit_to_pq(avg)])

RECURSIVE ParseLoop(_, _)
\* the accumulators after the first n samples of frame
ParseLoop(frame, n) ==
    IF n = 0 THEN ParseInit ELSE ParseBody(ParseLoop(frame, n - 1), frame[n])

\* fn parse_frame(frame: &[u16]) -> Self: Some(FrameInfo), or None for the panic
parse_frame(frame) == ParseFinish(ParseLoop(frame, Len(frame)), Len(frame))

\* ------------------------------------------------------------------ state
VARIABLES
    pc,           \* control location of main / plot
    ret,          \* Null while running, then how the process ended
    clip,         \* packets ictx.packets() has still to yield
    num_frames,   \* Option<u64> from the NUMBER_OF_FRAMES metadata 
    delay,        \* decoder latency: frames the codec holds back
    dec_held,     \* decoder: frames accepted and not yet released
    dec_ready,    \* decoder: frames receive_frame will return next
    decoded,      \* the Video buffer receive_frame fills
    frame_count,
    results,      \* Vec<FrameInfo>
    last,         \* Instant of the last checkpoint
    clock,        \* the monotonic clock: the value Instant::now() returns next
    stdout,       \* the lines println! has written
    delivered,    \* history: luma planes receive_frame has returned Ok for
    drawn,        \* what plot has drawn on the bitmap
    summary,      \* the figures plot puts in its series labels
    rframe,       \* parse_frame: the slice `frame`
    ri,           \* parse_frame: samples consumed by the for loop
    racc,         \* parse_frame: sum, max, min
    rpc,          \* parse_frame: "loop", "done" or "panicked"
    rout          \* parse_frame: the FrameInfo returned

mainVars == <<pc, ret, clip, num_frames, delay, dec_held, dec_ready, decoded,
              frame_count, results, last, clock, stdout, delivered, drawn, summary>>
reduceVars == <<rframe, ri, racc, rpc, rout>>
vars == <<mainVars, reduceVars>>

\* ----------------------------------------------------------------- inputs
\* sample values of a frame in SpecReduce: the 10-bit range, its ends, and a
\* 16-bit word above it
SampleVals == {0, 1, 512, 1023, 65535}

RECURSIVE SeqsUpTo(_, _)
SeqsUpTo(S, n) ==
    IF n = 0 THEN {<<>>}
    ELSE LET shorter == SeqsUpTo(S, n - 1)
         IN  shorter \cup {Append(s, x) : s \in {t \in shorter : Len(t) = n - 1}, x \in S}

\* luma planes of the clip's frames: (max, min, avg) = (10,1,5), (20,2,15), (5,0,3)
FrameA == <<10, 1, 4>>
FrameB == <<20, 2, 20, 18>>
FrameC == <<5, 0, 4>>
ClipFrames == <<FrameA, FrameB, FrameC>>

\* a packet: of the video stream (decodes to `frame`), of another stream, one
\* send_packet rejects, or one whose frame receive_frame fails to deliver
VideoPacket(f) == [kind |-> "video", frame |-> f]
OtherPacket == [kind |-> "other", frame |-> <<>>]
BadSendPacket == [kind |-> "bad_send", frame |-> <<>>]
BadFramePacket == [kind |-> "bad_frame", frame |-> <<>>]
PacketKinds ==
    {VideoPacket(ClipFrames[i]) : i \in 1..Len(ClipFrames)}
        \cup {OtherPacket, BadSendPacket, BadFramePacket}

ShortClips == SeqsUpTo(PacketKinds, MaxPackets)
LongClip(n) ==
    [i \in 1..n |-> VideoPacket(ClipFrames[((i - 1) % Len(ClipFrames)) + 1])]
LongClips == {LongClip(n) : n \in ReportEvery..(ReportEvery + LongExtra)}

\* values of the NUMBER_OF_FRAMES tag that parse as u64
HintValues == {0, 250}

\* ---------------------------------------------------------------- decoder
\* send_packet accepted: the frame joins the held ones; the codec releases the
\* oldest once it holds more than `delay`
DecoderAccept(held, ready, entry, d) ==
    LET h == Append(held, entry)
    IN  IF Len(h) > d
            THEN [held |-> Tail(h), ready |-> Append(ready, Head(h))]
            ELSE [held |-> h, ready |-> ready]

\* receive_frame returns Ok: a frame is ready and it decoded; otherwise Err
\* (nothing ready: EAGAIN or EOF; or the frame is lost to a decode error)
FrameAvailable(ready) == IF ready = <<>> THEN FALSE ELSE Head(ready).ok

\* ------------------------------------------------------------------- main
Running == ret = Null

\* lines 101-105, after the decoder is opened
Init ==
    /\ pc = "start"
    /\ ret = Null
    /\ clip \in ShortClips \cup LongClips
    /\ num_frames \in {None} \cup {Some(n) : n \in HintValues}
    /\ delay \in 0..MaxDelay
    /\ dec_held = <<>>
    /\ dec_ready = <<>>
    /\ decoded = <<>>
    /\ frame_count = 0
    /\ results = <<>>
    /\ last = 0
    /\ clock = 1
    /\ stdout = <<>>
    /\ delivered = <<>>
    /\ drawn = <<>>
    /\ summary = None
    /\ rframe = <<>>
    /\ ri = 0
    /\ racc = ParseInit
    /\ rpc = "idle"
    /\ rout = None

\* results.push(frameinfo) at the wrong end
PushFront(rs, fi) == <<fi>> \o rs

\* results.push(frameinfo)
Push(rs, fi) == Append(rs, fi)

\* the packet loop falls through to plot
SkipFlush == "plot"

\* where main continues once ictx.packets() is exhausted: decoder.send_eof()
AfterPacketLoop == "send_eof"

\* an error of send_packet / send_eof that is dropped: main carries on
IgnoreError(e) == Null

\* the `?` of send_packet and send_eof: main returns the error
Propagate(e) == e

\* the for loop is entered
StartStreaming ==
    /\ Running /\ pc = "start"
    /\ pc' = "next_packet"
    /\ UNCHANGED <<ret, clip, num_frames, delay, dec_held, dec_ready, decoded,
                   frame_count, results, last, clock, stdout, delivered, drawn,
                   summary, reduceVars>>

\* line 108: a packet of another stream
SkipPacket ==
    /\ Running /\ pc = "next_packet"
    /\ clip # <<>> /\ Head(clip).kind = "other"
    /\ clip' = Tail(clip)
    /\ UNCHANGED <<pc, ret, num_frames, delay, dec_held, dec_ready, decoded,
                   frame_count, results, last, clock, stdout, delivered, drawn,
                   summary, reduceVars>>

\* line 109: decoder.send_packet(&packet) is Ok
SendPacketOk ==
    /\ Running /\ pc = "next_packet"
    /\ clip # <<>> /\ Head(clip).kind \in {"video", "bad_frame"}
    /\ LET p == Head(clip)
           d == DecoderAccept(dec_held, dec_ready,
                              [frame |-> p.frame, ok |-> p.kind = "video"], delay)
       IN  /\ dec_held' = d.held
           /\ dec_ready' = d.ready
    /\ clip' = Tail(clip)
    /\ pc' = "receive"
    /\ UNCHANGED <<ret, num_frames, delay, decoded, frame_count, results, last,
                   clock, stdout, delivered, drawn, summary, reduceVars>>

\* line 109: decoder.send_packet(&packet)? is Err
SendPacketErr ==
    /\ Running /\ pc = "next_packet"
    /\ clip # <<>> /\ Head(clip).kind = "bad_send"
    /\ clip' = Tail(clip)
    /\ ret' = Propagate("Err_send_packet")
    /\ UNCHANGED <<pc, num_frames, delay, dec_held, dec_ready, decoded,
                   frame_count, results, last, clock, stdout, delivered, drawn,
                   summary, reduceVars>>

\* lines 111-133: receive_frame is Ok; the body of the while loop
ReceiveFrameOk ==
    /\ Running /\ pc = "receive"
    /\ FrameAvailable(dec_ready)
    /\ LET frame == Head(dec_ready).frame
           count == frame_count + 1
           report == count % ReportEvery = 0
           dur == clock - last
           divByZero == report /\ num_frames = Some(0)
           fi == parse_frame(frame)
       IN  /\ dec_ready' = Tail(dec_ready)
           /\ decoded' = frame
           /\ delivered' = Append(delivered, frame)
           /\ frame_count' = count
           /\ IF divByZero
                 THEN \* frame_count / num_frames panics before println!
                      /\ ret' = "panic_report_div_zero"
                      /\ clock' = clock + 1
                      /\ UNCHANGED <<last, stdout, results>>
                 ELSE /\ IF report
                            THEN /\ stdout' = Append(stdout,
                                        IF num_frames # None
                                            THEN [line |-> "pct", frame |-> count,
                                                  value |-> count \div Unwrap(num_frames)]
                                            ELSE [line |-> "fps", frame |-> count,
                                                  value |-> dur])
                                 /\ last' = clock + 1
                                 /\ clock' = clock + 2
                            ELSE UNCHANGED <<stdout, last, clock>>
                      /\ IF fi = None
                            THEN ret' = "panic_mean_div_zero" /\ UNCHANGED results
                            ELSE results' = Push(results, Unwrap(fi)) /\ UNCHANGED ret
    /\ UNCHANGED <<pc, clip, num_frames, delay, dec_held, drawn, summary, reduceVars>>

\* line 111: receive_frame is Err (nothing ready, or the frame failed to decode
\* and is lost): the while loop ends
ReceiveFrameErr ==
    /\ Running /\ pc = "receive"
    /\ ~FrameAvailable(dec_ready)
    /\ dec_ready' = IF dec_ready = <<>> THEN dec_ready ELSE Tail(dec_ready)
    /\ pc' = "next_packet"
    /\ UNCHANGED <<ret, clip, num_frames, delay, dec_held, decoded, frame_count,
                   results, last, clock, stdout, delivered, drawn, summary,
                   reduceVars>>

\* line 107: ictx.packets() yields no more packets
EndOfPackets ==
    /\ Running /\ pc = "next_packet"
    /\ clip = <<>>
    /\ pc' = AfterPacketLoop
    /\ UNCHANGED <<ret, clip, num_frames, delay, dec_held, dec_ready, decoded,
                   frame_count, results, last, clock, stdout, delivered, drawn,
                   summary, reduceVars>>

\* line 137: decoder.send_eof() is Ok: the codec releases what it held
SendEofOk ==
    /\ Running /\ pc = "send_eof"
    /\ dec_ready' = dec_ready \o dec_held
    /\ dec_held' = <<>>
    /\ pc' = "flush"
    /\ UNCHANGED <<ret, clip, num_frames, delay, decoded, frame_count, results,
                   last, clock, stdout, delivered, drawn, summary, reduceVars>>

\* line 137: decoder.send_eof()? is Err
SendEofErr ==
    /\ Running /\ pc = "send_eof"
    /\ ret' = Propagate("Err_send_eof")
    /\ UNCHANGED <<pc, clip, num_frames, delay, dec_held, dec_ready, decoded,
                   frame_count, results, last, clock, stdout, delivered, drawn,
                   summary, reduceVars>>

\* lines 138-141: a frame received while flushing is counted and printed
FlushFrame ==
    /\ Running /\ pc = "flush"
    /\ FrameAvailable(dec_ready)
    /\ decoded' = Head(dec_ready).frame
    /\ delivered' = Append(delivered, Head(dec_ready).frame)
    /\ dec_ready' = Tail(dec_ready)
    /\ stdout' = Append(stdout, [line |-> "flushing", frame |-> frame_count, value |-> 0])
    /\ frame_count' = frame_count + 1
    /\ UNCHANGED <<pc, ret, clip, num_frames, delay, dec_held, results, last,
                   clock, drawn, summary, reduceVars>>

\* lines 138, 143, 145: receive_frame is Err: the total is printed, plot is called
FlushDone ==
    /\ Running /\ pc = "flush"
    /\ ~FrameAvailable(dec_ready)
    /\ dec_ready' = IF dec_ready = <<>> THEN dec_ready ELSE Tail(dec_ready)
    /\ stdout' = Append(stdout, [line |-> "total", frame |-> frame_count, value |-> 0])
    /\ pc' = "plot"
    /\ UNCHANGED <<ret, clip, num_frames, delay, dec_held, decoded, frame_count,
                   results, last, clock, delivered, drawn, summary, reduceVars>>

\* ------------------------------------------------------------------- plot
\* results.iter().map(|x| x.<field>)
Column(rs, field) == [i \in 1..Len(rs) |-> rs[i][field]]

\* one step of Iterator::max's fold over FloatOrd: the later of two equal
\* elements is kept
MaxStep(best, x) == IF PqLeq(best, x) THEN x ELSE best

RECURSIVE MaxOver(_, _, _)
\* the fold of MaxStep over xs[lo..hi], evaluated by halves (MaxStep is
\* associative, so the result is that of the left-to-right fold)
MaxOver(xs, lo, hi) ==
    IF lo = hi THEN xs[lo]
    ELSE LET mid == (lo + hi) \div 2
         IN  MaxStep(MaxOver(xs, lo, mid), MaxOver(xs, mid + 1, hi))

\* an iterator "max" that yields the first element
IterFirst(xs) == IF xs = <<>> THEN None ELSE Some(xs[1])

\* Iterator::max over FloatOrd: None when empty
IterMax(xs) == IF xs = <<>> THEN None ELSE Some(MaxOver(xs, 1, Len(xs)))

RECURSIVE SumNum(_, _, _)
\* the numerators of xs[lo..hi] added up, by halves
SumNum(xs, lo, hi) ==
    IF lo = hi THEN xs[lo].num
    ELSE LET mid == (lo + hi) \div 2
         IN  SumNum(xs, lo, mid) + SumNum(xs, mid + 1, hi)

\* results.iter().map(..).sum::<f64>() / results.len() as f64  (non-empty; all
\* the terms are over 1023)
Mean(xs) == [num |-> SumNum(xs, 1, Len(xs)), den |-> 1023 * Len(xs)]

\* lines 199-226: background, title, chart area and mesh are drawn
PlotBackground ==
    /\ Running /\ pc = "plot"
    /\ drawn' = drawn \o <<"fill", "title", "axes", "mesh">>
    /\ pc' = "plot_summary"
    /\ UNCHANGED <<ret, clip, num_frames, delay, dec_held, dec_ready, decoded,
                   frame_count, results, last, clock, stdout, delivered, summary,
                   reduceVars>>

\* lines 228-245: the figures of the three series labels; max().unwrap()
\* panics on an empty slice
PlotSummary ==
    /\ Running /\ pc = "plot_summary"
    /\ IF IterMax(Column(results, "avg")) = None
          THEN /\ ret' = "panic_unwrap_none"
               /\ UNCHANGED <<pc, summary>>
          ELSE /\ summary' = Some(
                    [maxfall     |-> pq_to_nits(Unwrap(IterMax(Column(results, "avg")))),
                     maxfall_avg |-> pq_to_nits(Mean(Column(results, "avg"))),
                     maxcll      |-> pq_to_nits(Unwrap(IterMax(Column(results, "max")))),
                     maxcll_avg  |-> pq_to_nits(Mean(Column(results, "max"))),
                     max_min     |-> pq_to_nits(Unwrap(IterMax(Column(results, "min"))))])
               /\ pc' = "plot_series"
               /\ UNCHANGED ret
    /\ UNCHANGED <<clip, num_frames, delay, dec_held, dec_ready, decoded,
                   frame_count, results, last, clock, stdout, delivered, drawn,
                   reduceVars>>

\* lines 247-324 and 151: the three series, the legend and the caption are
\* drawn; plot returns and main returns Ok(())
PlotSeries ==
    /\ Running /\ pc = "plot_series"
    /\ drawn' = drawn \o <<"max_series", "avg_series", "min_series", "legend", "caption">>
    /\ pc' = "done"
    /\ ret' = "Ok"
    /\ UNCHANGED <<clip, num_frames, delay, dec_held, dec_ready, decoded,
                   frame_count, results, last, clock, stdout, delivered, summary,
                   reduceVars>>

Next ==
    \/ StartStreaming
    \/ SkipPacket
    \/ SendPacketOk
    \/ SendPacketErr
    \/ ReceiveFrameOk
    \/ ReceiveFrameErr
    \/ EndOfPackets
    \/ SendEofOk
    \/ SendEofErr
    \/ FlushFrame
    \/ FlushDone
    \/ PlotBackground
    \/ PlotSummary
    \/ PlotSeries

Spec == Init /\ [][Next]_vars

\* the phase of the run a control location belongs to
Phase ==
    CASE pc = "start" -> "Initialized"
      [] pc \in {"next_packet", "receive"} -> "Streaming"
      [] pc \in {"send_eof", "flush"} -> "Flushing"
      [] OTHER -> "Completed"

PhaseRank(p) ==
    CASE p = "Initialized" -> 0
      [] p = "Streaming" -> 1
      [] p = "Flushing" -> 2
      [] OTHER -> 3

\* ------------------------------------------- parse_frame, sample by sample
InitReduce ==
    /\ rframe \in SeqsUpTo(SampleVals, MaxLen)
    /\ ri = 0
    /\ racc = ParseInit
    /\ rpc = "loop"
    /\ rout = None
    /\ pc = "idle"
    /\ ret = Null
    /\ clip = <<>>
    /\ num_frames = None
    /\ delay = 0
    /\ dec_held = <<>>
    /\ dec_ready = <<>>
    /\ decoded = <<>>
    /\ frame_count = 0
    /\ results = <<>>
    /\ last = 0
    /\ clock = 1
    /\ stdout = <<>>
    /\ delivered = <<>>
    /\ drawn = <<>>
    /\ summary = None

\* lines 59-63: one turn of the for loop
ReduceStep ==
    /\ rpc = "loop" /\ ri < Len(rframe)
    /\ racc' = ParseBody(racc, rframe[ri + 1])
    /\ ri' = ri + 1
    /\ UNCHANGED <<rframe, rpc, rout, mainVars>>

\* lines 65-71: the mean and the FrameInfo, or the panic of sum / 0
ReduceFinish ==
    /\ rpc = "loop" /\ ri = Len(rframe)
    /\ LET out == ParseFinish(racc, Len(rframe))
       IN  IF out = None
              THEN rpc' = "panicked" /\ UNCHANGED rout
              ELSE rpc' = "done" /\ rout' = out
    /\ UNCHANGED <<rframe, ri, racc, mainVars>>

NextReduce == ReduceStep \/ ReduceFinish

SpecReduce == InitReduce /\ [][NextReduce]_vars

\* ================================================================= claims
Errs == {"Err_send_packet", "Err_send_eof"}

\* the progress reports among the lines written
ReportCount ==
    Cardinality({i \in 1..Len(stdout) : stdout[i].line \in {"pct", "fps"}})

\* C1: when the run is Completed, results holds one FrameInfo per frame the
\* decoder delivered over the whole run, the frames delivered while flushing
\* included: len(results) equals the decoded-frame count.
C1_FlushedFramesRecorded ==
    Phase = "Completed" =>
        /\ Len(results) = Len(delivered)
        /\ Len(results) = frame_count

\* C2 as stated: a run in which send_packet or send_eof failed still gets to
\* Completed (the results are handed to the renderer).
C2_FailureStillCompletes == ret \in Errs => Phase = "Completed"

SendFails ==
    Running /\ pc = "next_packet" /\ clip # <<>> /\ Head(clip).kind = "bad_send"
RecvFails ==
    Running /\ pc \in {"receive", "flush"} /\ dec_ready # <<>> /\ ~Head(dec_ready).ok

\* C2 amended: a failed send_packet or send_eof emits no FrameInfo and ends the
\* run at once with that error, where it is and with nothing rendered; a failed
\* receive_frame emits no FrameInfo, drops that delivery, ends the receive loop
\* and lets the run go on; a run that ended with an error takes no further step.
C2_FailureEndsOrSkips ==
    [][ /\ ret \notin Errs
        /\ SendFails => (ret' = "Err_send_packet" /\ results' = results)
        /\ ret' = "Err_send_eof" => (pc = "send_eof" /\ results' = results)
        /\ ret' \in Errs =>
              (pc' = pc /\ Phase' # "Completed" /\ drawn' = <<>> /\ summary' = None)
        /\ RecvFails =>
              /\ results' = results /\ delivered' = delivered
              /\ frame_count' = frame_count
              /\ dec_ready' = Tail(dec_ready)
              /\ ret' = Null
              /\ pc' = (IF pc = "receive" THEN "next_packet" ELSE "plot")
      ]_vars

\* C2 witness: send_packet failed after frames had been collected; the run is
\* over and nothing was drawn.
C2_Witness == ret = "Err_send_packet" /\ results # <<>> /\ drawn = <<>>

\* C3: parse_frame on an empty buffer and plot on an empty results slice fail
\* before any output of theirs: no FrameInfo is returned, nothing is drawn.
C3_FailFast ==
    /\ rpc = "panicked" => rout = None
    /\ ret = "panic_unwrap_none" => (drawn = <<>> /\ summary = None)

InRange(frame) == \A i \in 1..Len(frame) : frame[i] \in 0..1023
Samples(frame) == {frame[i] : i \in 1..Len(frame)}
NaiveMin(frame) == CHOOSE m \in Samples(frame) : \A x \in Samples(frame) : m <= x
NaiveMax(frame) == CHOOSE m \in Samples(frame) : \A x \in Samples(frame) : m >= x
RECURSIVE MathSum(_, _)
MathSum(frame, n) == IF n = 0 THEN 0 ELSE MathSum(frame, n - 1) + frame[n]
Normalised(code) == [num |-> code, den |-> 1023]

\* C4: for a non-empty frame of samples in [0,1023], parse_frame returns
\* min <= avg <= max, with min and max the true minimum and maximum over 1023
\* and avg the truncated mean floor(sum/len) over 1023.
C4_ReductionCorrect ==
    (rpc = "done" /\ InRange(rframe)) =>
        LET fi == Unwrap(rout)
        IN  /\ PqLeq(fi.min, fi.avg) /\ PqLeq(fi.avg, fi.max)
            /\ fi.min = Normalised(NaiveMin(rframe))
            /\ fi.max = Normalised(NaiveMax(rframe))
            /\ fi.avg = Normalised(MathSum(rframe, Len(rframe)) \div Len(rframe))

\* C4 witness: a frame in range reduced to three different statistics.
C4_Witness ==
    /\ rpc = "done" /\ InRange(rframe) /\ Len(rframe) = 3
    /\ Unwrap(rout).min.num < Unwrap(rout).avg.num
    /\ Unwrap(rout).avg.num < Unwrap(rout).max.num

LargestOf(S) == CHOOSE x \in S : \A y \in S : PqLeq(y, x)
FieldSet(field) == {results[i][field] : i \in 1..Len(results)}

\* C5: MaxCLL, MaxFALL and the minimum series' maximum are the converted values
\* of the largest per-frame max, avg and min: functions of the set of values,
\* whatever the order of the frames.
C5_ClipMaxima ==
    summary # None =>
        /\ results # <<>>
        /\ Unwrap(summary).maxcll = pq_to_nits(LargestOf(FieldSet("max")))
        /\ Unwrap(summary).maxfall = pq_to_nits(LargestOf(FieldSet("avg")))
        /\ Unwrap(summary).max_min = pq_to_nits(LargestOf(FieldSet("min")))

\* C5 witness: frames with max 10, 20, 5 and avg 5, 15, 3, the largest in the
\* middle; MaxCLL and MaxFALL are the values of codes 20 and 15.
C5_Witness ==
    /\ summary # None /\ Len(results) = 3
    /\ results[1].max.num = 10 /\ results[2].max.num = 20 /\ results[3].max.num = 5
    /\ results[1].avg.num = 5 /\ results[2].avg.num = 15 /\ results[3].avg.num = 3
    /\ Unwrap(summary).maxcll = NitsTable[21]
    /\ Unwrap(summary).maxfall = NitsTable[16]

\* parse_frame tabulated over the frames a clip is made of
InfoOf == [f \in {ClipFrames[k] : k \in 1..Len(ClipFrames)} |-> parse_frame(f)]

\* C6: results starts empty; a step leaves it alone or appends one entry; its
\* i-th entry is the FrameInfo of the i-th frame delivered; nothing changes it
\* once the run is Completed.
C6_AppendOnlyDecodeOrder ==
    /\ results = <<>>
    /\ [](/\ Len(results) <= Len(delivered)
          /\ \A i \in 1..Len(results) : Some(results[i]) = InfoOf[delivered[i]])
    /\ [][ /\ \/ results' = results
              \/ /\ Len(results') = Len(results) + 1
                 /\ SubSeq(results', 1, Len(results)) = results
           /\ (Phase = "Completed" \/ Phase' = "Completed") => results' = results
         ]_vars

\* C6 witness: a finished run with three entries, the first two different.
C6_Witness == pc = "done" /\ Len(results) = 3 /\ results[1] # results[2]

C9_ReportEveryHundredth ==
    [][ /\ (frame_count' # frame_count /\ frame_count' % ReportEvery = 0) =>
              /\ ReportCount' = ReportCount + 1
              /\ Len(results') = Len(results) + 1
        /\ ReportCount' # ReportCount =>
              /\ frame_count' = frame_count + 1
              /\ frame_count' % ReportEvery = 0
              /\ Len(results') = Len(results) + 1
      ]_vars

\* C10: no value of the frame-count hint makes the progress report abort the
\* run.
C10_ReportNeverAborts == ret # "panic_report_div_zero"
====
